---- MODULE Spec2Model ----
(***************************************************************************)
(* Model of themis/ratelimiter.py: the RateLimiter class, a sliding-window *)
(* log rate limiter backed by a Redis store.                               *)
(*                                                                         *)
(* Time is counted in ticks; TicksPerSec ticks make one second.  Window    *)
(* lengths, block durations and TTL replies are whole seconds, as in the   *)
(* code; timestamps (time.time()) and the waits computed from them are     *)
(* ticks.  None is written as the number None.                             *)
(***************************************************************************)
EXTENDS Integers, Sequences, FiniteSets, TLC

\* ------------------------------------------------------------------ bounds
HalfSecTicks == 2
TicksPerSec == 2 * HalfSecTicks
MaxConds == 3
MaxArgs == 2
MaxTime == 8
MaxGrants == 3
MaxBlockSize == 2
MaxPings == 3
MaxTimeConc == 6
MaxCallsConc == 1
MaxCallsRace == 2
MaxGrantsAcq == 4
MaxTimeAcq == 12
MaxStartLive == 1
MaxSecondsLive == 3
MaxCallsLive == 2
MaxStrLen == 2
MaxUsers == 2
BlockArgs == {-2, -1, 0, 1, 2}

\* ------------------------------------------------------- program constants
LockTimeout == 10

None == -100

Keys == {"a"}
Procs == {1, 2}
Clients == {"Redis", "StrictRedis"}

VARIABLES
  conditions,   \* self.conditions: sequence of <<requests, seconds>>
  list_ttl,     \* self.list_ttl
  raised,       \* outcome of the last add_condition call
  client,       \* the class of self.redis: redis.Redis or redis.StrictRedis
  now,          \* the clock, in ticks
  log,          \* store: the list rate:<namespace>:<key>, most recent first
  logExp,       \* store: the tick at which that list expires
  blockExp,     \* store: the tick at which block:<namespace>:<key> expires (0: no key)
  lockOwner,    \* store: the holder of lock:<namespace>:<key> (0: free)
  lockExp,      \* store: the tick at which that lock's lease ends
  pc,           \* where each caller is
  call,         \* the arguments of each caller's call
  left,         \* non-blocking acquire: iterations of the for loop still to run
  frame,        \* locals of the caller's _make_ping or is_manual_block
  wake,         \* blocking acquire: the tick at which time.sleep returns
  ret,          \* what each caller's last call returned or raised
  grants,       \* history: per key, the timestamps of the grants written to the log
  npings,       \* history: _make_ping calls made by the caller's current acquire
  ngrants,      \* history: the pings among them that have returned True
  nwrites,      \* history: the grants among them that were written to the log
  cleared,      \* history: per key, the grants written before is_manual_block last deleted the log
  ncalls,       \* history: calls made by each caller
  stolen,       \* history: a lock lease ran out while its holder was still inside
  blockDur,     \* history: per key, the time given to the block that is in force, in ticks (0: none)
  touched       \* store names: which (namespace, key) has used which name in the store

cfgvars == <<conditions, list_ttl, raised>>
storevars == <<log, logExp, blockExp, lockOwner, lockExp>>
procvars == <<pc, call, left, frame, wake, ret>>
histvars == <<grants, npings, ngrants, nwrites, cleared, ncalls, stolen, blockDur>>
vars == <<cfgvars, touched, client, now, storevars, procvars, histvars>>

\* ---------------------------------------------------------- add_condition

\* seconds of one condition argument: a (requests, seconds) pair has no other
\* time fields, a dict may carry minutes, hours and days
CondSeconds(c) ==
  IF c.form = "dict"
    THEN c.seconds + 60 * (c.minutes + 60 * (c.hours + 24 * c.days))
    ELSE c.seconds

\* Python's tuple order on (requests, seconds): a < b
TupleLess(a, b) == a[1] < b[1] \/ (a[1] = b[1] /\ a[2] < b[2])

\* insert c in a sorted list after every element that is not greater
RECURSIVE InsertSorted(_, _)
InsertSorted(c, s) ==
  IF s = <<>> THEN <<c>>
  ELSE IF TupleLess(c, Head(s)) THEN <<c>> \o s
  ELSE <<Head(s)>> \o InsertSorted(c, Tail(s))

\* SortConditions as a stable sort on requests alone
RECURSIVE InsertByRequests(_, _)
InsertByRequests(c, s) ==
  IF s = <<>> THEN <<c>>
  ELSE IF c[1] < Head(s)[1] THEN <<c>> \o s
  ELSE <<Head(s)>> \o InsertByRequests(c, Tail(s))

RECURSIVE SortConditionsStable(_)
SortConditionsStable(s) ==
  IF s = <<>> THEN <<>>
  ELSE InsertByRequests(s[Len(s)], SortConditionsStable(SubSeq(s, 1, Len(s) - 1)))

\* self.conditions.sort()
RECURSIVE SortConditions(_)
SortConditions(s) ==
  IF s = <<>> THEN <<>>
  ELSE InsertSorted(s[Len(s)], SortConditions(SubSeq(s, 1, Len(s) - 1)))

\* LoopStep with list_ttl overwritten by every stored condition
LoopStepLastTtl(st, c) ==
  LET requests == c.requests
      seconds  == CondSeconds(c)
  IN  IF st.err # "none" THEN st
      ELSE IF requests < 0 THEN [st EXCEPT !.err = "ValueError"]
      ELSE IF seconds < 0 THEN [st EXCEPT !.err = "ValueError"]
      ELSE IF seconds > 0
        THEN [conds |-> Append(st.conds, <<requests, seconds>>),
              ttl   |-> seconds,
              err   |-> "none"]
        ELSE st

\* the body of the for loop over the arguments, from state st =
\* [conds, ttl, err]; once an argument has raised, the rest is not looked at
LoopStep(st, c) ==
  LET requests == c.requests
      seconds  == CondSeconds(c)
  IN  IF st.err # "none" THEN st
      ELSE IF requests < 0 THEN [st EXCEPT !.err = "ValueError"]
      ELSE IF seconds < 0 THEN [st EXCEPT !.err = "ValueError"]
      ELSE IF seconds > 0
        THEN [conds |-> Append(st.conds, <<requests, seconds>>),
              ttl   |-> IF seconds > st.ttl THEN seconds ELSE st.ttl,
              err   |-> "none"]
        ELSE st

RECURSIVE LoopArgs(_, _)
LoopArgs(st, args) ==
  IF args = <<>> THEN st ELSE LoopArgs(LoopStep(st, Head(args)), Tail(args))

\* the limiter after add_condition(*args): the sort is skipped when the loop
\* raised
AddConditionResult(conds, ttl, args) ==
  LET st == LoopArgs([conds |-> conds, ttl |-> ttl, err |-> "none"], args)
  IN  IF st.err = "none"
        THEN [st EXCEPT !.conds = SortConditions(st.conds)]
        ELSE st

\* arguments of add_condition
TupleArgs ==
  [form : {"tuple"}, requests : -1 .. 2, seconds : -1 .. 2,
   minutes : {0}, hours : {0}, days : {0}]
DictArgs ==
  {[form |-> "dict", requests |-> 1, seconds |-> 1, minutes |-> 0, hours |-> 0, days |-> 0],
   [form |-> "dict", requests |-> 1, seconds |-> 0, minutes |-> 1, hours |-> 0, days |-> 0],
   [form |-> "dict", requests |-> 2, seconds |-> 1, minutes |-> 0, hours |-> 1, days |-> 0],
   [form |-> "dict", requests |-> 1, seconds |-> 0, minutes |-> 0, hours |-> 0, days |-> 1]}
CondArgs == TupleArgs \cup DictArgs
ArgLists == UNION {[1 .. n -> CondArgs] : n \in 1 .. MaxArgs}

add_condition(args) ==
  /\ Len(conditions) + Len(args) <= MaxConds
  /\ LET r == AddConditionResult(conditions, list_ttl, args)
     IN  /\ conditions' = r.conds
         /\ list_ttl' = r.ttl
         /\ raised' = r.err


\* ------------------------------------------------------------------ store

\* LINDEX list index: 0 is the head, -1 the last element, None out of range
lindex(l, i) ==
  IF i >= 0
    THEN IF i < Len(l) THEN l[i + 1] ELSE None
    ELSE IF -i <= Len(l) THEN l[Len(l) + i + 1] ELSE None

\* LPUSH list value
lpush(l, v) == <<v>> \o l

\* LTRIM list 0 stop
ltrim(l, stop) ==
  LET last == IF stop >= 0 THEN stop + 1 ELSE Len(l) + stop + 1
  IN  IF last <= 0 THEN <<>>
      ELSE IF last >= Len(l) THEN l
      ELSE SubSeq(l, 1, last)

\* the server's reply to TTL block_key: whole seconds, rounded to the nearest,
\* and -2 when the key does not exist
TtlReply(k) ==
  IF now < blockExp[k]
    THEN (blockExp[k] - now + HalfSecTicks) \div TicksPerSec
    ELSE -2

\* what the client hands back for that reply: redis.Redis maps a reply that
\* is 0 or negative to None, redis.StrictRedis hands the reply back as it is
ClientTtl(r) ==
  IF client = "Redis" THEN (IF r > 0 THEN r ELSE None) ELSE r

\* GET block_key, as "is the key present"
BlockPresent(k) == now < blockExp[k]

\* the server drops the keys whose time to live has run out
Expired(t, exp) == exp # 0 /\ t >= exp

\* ---------------------------------------------------------------- callers

EmptyFrame ==
  [bt |-> <<>>, block_ttl |-> None, blocked |-> FALSE, rlog |-> <<>>,
   timestamp |-> None, success |-> FALSE, wait |-> 0]
NoCall == [op |-> "none", key |-> "a", size |-> 0, blocking |-> FALSE]
NoRet == [kind |-> "none", success |-> FALSE, value |-> 0]

Returned(success, value) == [kind |-> "return", success |-> success, value |-> value]
Raised(err) == [kind |-> err, success |-> FALSE, value |-> 0]

\* AcquireContinue whose for loop goes on after a denial
AcquireContinueNoShortCircuit(p, success, wait) ==
  IF call[p].blocking
    THEN IF success
           THEN /\ pc' = [pc EXCEPT ![p] = "idle"]
                /\ ret' = [ret EXCEPT ![p] = Returned(TRUE, wait)]
                /\ UNCHANGED <<left, wake>>
           ELSE /\ pc' = [pc EXCEPT ![p] = "sleep"]
                /\ wake' = [wake EXCEPT ![p] = now + wait]
                /\ UNCHANGED <<left, ret>>
    ELSE IF left[p] = 1
           THEN /\ pc' = [pc EXCEPT ![p] = "idle"]
                /\ ret' = [ret EXCEPT ![p] = Returned(success, wait)]
                /\ left' = [left EXCEPT ![p] = 0]
                /\ UNCHANGED wake
           ELSE /\ pc' = [pc EXCEPT ![p] = "ping"]
                /\ left' = [left EXCEPT ![p] = left[p] - 1]
                /\ UNCHANGED <<wake, ret>>

\* AcquireContinue whose blocking loop returns the first ping's result
AcquireContinueBlockingOnce(p, success, wait) ==
  IF call[p].blocking \/ ~success \/ left[p] = 1
    THEN /\ pc' = [pc EXCEPT ![p] = "idle"]
         /\ ret' = [ret EXCEPT ![p] = Returned(success, wait)]
         /\ left' = [left EXCEPT ![p] = 0]
         /\ UNCHANGED wake
    ELSE /\ pc' = [pc EXCEPT ![p] = "ping"]
         /\ left' = [left EXCEPT ![p] = left[p] - 1]
         /\ UNCHANGED <<wake, ret>>

\* acquire, after one _make_ping has returned (success, wait): the blocking
\* loop returns on success and sleeps wait otherwise; the for loop returns on
\* a denial and after the last iteration
AcquireContinue(p, success, wait) ==
  IF call[p].blocking
    THEN IF success
           THEN /\ pc' = [pc EXCEPT ![p] = "idle"]
                /\ ret' = [ret EXCEPT ![p] = Returned(TRUE, wait)]
                /\ UNCHANGED <<left, wake>>
           ELSE /\ pc' = [pc EXCEPT ![p] = "sleep"]
                /\ wake' = [wake EXCEPT ![p] = now + wait]
                /\ UNCHANGED <<left, ret>>
    ELSE IF ~success \/ left[p] = 1
           THEN /\ pc' = [pc EXCEPT ![p] = "idle"]
                /\ ret' = [ret EXCEPT ![p] = Returned(success, wait)]
                /\ left' = [left EXCEPT ![p] = 0]
                /\ UNCHANGED wake
           ELSE /\ pc' = [pc EXCEPT ![p] = "ping"]
                /\ left' = [left EXCEPT ![p] = left[p] - 1]
                /\ UNCHANGED <<wake, ret>>

\* acquire(key, block_size, block): entry.  A for loop over an empty range
\* reaches "return success, wait" with neither name bound.
CallAcquire(p, k, size, blocking) ==
  /\ pc[p] = "idle"
  /\ call' = [call EXCEPT ![p] =
                [op |-> "acquire", key |-> k, size |-> size, blocking |-> blocking]]
  /\ npings' = [npings EXCEPT ![p] = 0]
  /\ ngrants' = [ngrants EXCEPT ![p] = 0]
  /\ nwrites' = [nwrites EXCEPT ![p] = 0]
  /\ IF ~blocking /\ size <= 0
       THEN /\ ret' = [ret EXCEPT ![p] = Raised("UnboundLocalError")]
            /\ UNCHANGED <<pc, left>>
       ELSE /\ ret' = [ret EXCEPT ![p] = NoRet]
            /\ pc' = [pc EXCEPT ![p] = "ping"]
            /\ left' = [left EXCEPT ![p] = IF blocking THEN 0 ELSE size]
  /\ UNCHANGED <<cfgvars, touched, client, now, storevars, frame, wake, grants, cleared, stolen, blockDur>>

\* Ping without the shortcut for an empty condition list
PingNoEmptyShortcut(p) ==
  /\ pc[p] = "ping"
  /\ npings[p] < MaxPings
  /\ npings' = [npings EXCEPT ![p] = npings[p] + 1]
  /\ IF conditions # <<>> /\ conditions[1][1] = 0
       THEN /\ AcquireContinue(p, FALSE, conditions[1][2] * TicksPerSec)
            /\ UNCHANGED ngrants
       ELSE /\ pc' = [pc EXCEPT ![p] = "lock"]
            /\ UNCHANGED <<left, wake, ret, ngrants>>
  /\ UNCHANGED <<cfgvars, touched, client, now, storevars, call, frame, grants, nwrites, cleared, ncalls,
                 stolen, blockDur>>

\* _make_ping, up to the lock: the two shortcuts
Ping(p) ==
  /\ pc[p] = "ping"
  /\ npings[p] < MaxPings
  /\ npings' = [npings EXCEPT ![p] = npings[p] + 1]
  /\ IF conditions = <<>>
       THEN /\ ngrants' = [ngrants EXCEPT ![p] = ngrants[p] + 1]
            /\ AcquireContinue(p, TRUE, 0)
       ELSE IF conditions[1][1] = 0
         THEN /\ AcquireContinue(p, FALSE, conditions[1][2] * TicksPerSec)
              /\ UNCHANGED ngrants
         ELSE /\ pc' = [pc EXCEPT ![p] = "lock"]
              /\ UNCHANGED <<left, wake, ret, ngrants>>
  /\ UNCHANGED <<cfgvars, touched, client, now, storevars, call, frame, grants, nwrites, cleared, ncalls,
                 stolen, blockDur>>

\* Lock that does not look at the holder
LockNoExclusion(p) ==
  /\ pc[p] = "lock"
  /\ lockOwner' = [lockOwner EXCEPT ![call[p].key] = p]
  /\ lockExp' = [lockExp EXCEPT ![call[p].key] = now + LockTimeout * TicksPerSec]
  /\ pc' = [pc EXCEPT ![p] = "read"]
  /\ UNCHANGED <<cfgvars, touched, client, now, log, logExp, blockExp, call, left, frame, wake, ret, histvars>>

\* with self.redis.lock(lock_key, timeout=10): entry.  The lock is taken when
\* no caller holds it or the holder's lease has run out.
Lock(p) ==
  /\ pc[p] = "lock"
  /\ lockOwner[call[p].key] = 0
  /\ lockOwner' = [lockOwner EXCEPT ![call[p].key] = p]
  /\ lockExp' = [lockExp EXCEPT ![call[p].key] = now + LockTimeout * TicksPerSec]
  /\ pc' = [pc EXCEPT ![p] = "read"]
  /\ UNCHANGED <<cfgvars, touched, client, now, log, logExp, blockExp, call, left, frame, wake, ret, histvars>>

\* the first pipeline: one LINDEX per condition, TTL and GET of the block key
Read(p) ==
  LET k == call[p].key IN
  /\ pc[p] = "read"
  /\ frame' = [frame EXCEPT ![p] =
       [EmptyFrame EXCEPT
          !.bt = [i \in 1 .. Len(conditions) |-> lindex(log[k], conditions[i][1] - 1)],
          !.block_ttl = ClientTtl(TtlReply(k)),
          !.blocked = BlockPresent(k),
          !.rlog = log[k]]]
  /\ pc' = [pc EXCEPT ![p] = "eval"]
  /\ UNCHANGED <<cfgvars, touched, client, now, storevars, call, left, wake, ret, histvars>>

\* the wait returned for a manual block: block_ttl seconds, 0.5 s for None
BlockWait(block_ttl) ==
  IF block_ttl = None THEN HalfSecTicks ELSE block_ttl * TicksPerSec

\* FirstViolated with >= for >
RECURSIVE FirstViolatedInclusive(_, _, _)
FirstViolatedInclusive(bt, timestamp, i) ==
  IF i > Len(conditions) THEN 0
  ELSE IF bt[i] # None /\ bt[i] + conditions[i][2] * TicksPerSec >= timestamp THEN i
  ELSE FirstViolatedInclusive(bt, timestamp, i + 1)

\* the condition loop: the index of the first condition whose boundary
\* timestamp is present and not yet seconds old, 0 when there is none
RECURSIVE FirstViolated(_, _, _)
FirstViolated(bt, timestamp, i) ==
  IF i > Len(conditions) THEN 0
  ELSE IF bt[i] # None /\ bt[i] + conditions[i][2] * TicksPerSec > timestamp THEN i
  ELSE FirstViolated(bt, timestamp, i + 1)

\* from the pipeline's replies to the decision
Eval(p) ==
  LET f == frame[p]
      v == FirstViolated(f.bt, now, 1)
  IN
  /\ pc[p] = "eval"
  /\ IF f.blocked
       THEN /\ frame' = [frame EXCEPT ![p] =
                 [f EXCEPT !.success = FALSE, !.wait = BlockWait(f.block_ttl)]]
            /\ pc' = [pc EXCEPT ![p] = "unlock"]
       ELSE IF v # 0
         THEN /\ frame' = [frame EXCEPT ![p] =
                   [f EXCEPT !.timestamp = now, !.success = FALSE,
                             !.wait = f.bt[v] + conditions[v][2] * TicksPerSec - now]]
              /\ pc' = [pc EXCEPT ![p] = "unlock"]
         ELSE /\ frame' = [frame EXCEPT ![p] =
                   [f EXCEPT !.timestamp = now, !.success = TRUE, !.wait = 0]]
              /\ pc' = [pc EXCEPT ![p] = "write"]
  /\ UNCHANGED <<cfgvars, touched, client, now, storevars, call, left, wake, ret, histvars>>

\* the second pipeline: LPUSH, LTRIM, EXPIRE
Write(p) ==
  LET k == call[p].key
      max_requests == conditions[Len(conditions)][1]
  IN
  /\ pc[p] = "write"
  /\ log' = [log EXCEPT ![k] = ltrim(lpush(log[k], frame[p].timestamp), max_requests - 1)]
  /\ logExp' = [logExp EXCEPT ![k] = now + list_ttl * TicksPerSec]
  /\ grants' = [grants EXCEPT ![k] = Append(grants[k], frame[p].timestamp)]
  /\ nwrites' = [nwrites EXCEPT ![p] = nwrites[p] + 1]
  /\ pc' = [pc EXCEPT ![p] = "unlock"]
  /\ UNCHANGED <<cfgvars, touched, client, now, blockExp, lockOwner, lockExp, call, left, frame,
                 wake, ret, npings, ngrants, cleared, ncalls, stolen, blockDur>>

\* leaving the with block, then _make_ping returns to acquire.  Releasing a
\* lock whose lease ran out raises LockError out of acquire: the ping does
\* not return.
Unlock(p) ==
  LET k == call[p].key IN
  /\ pc[p] = "unlock"
  /\ frame' = [frame EXCEPT ![p] = EmptyFrame]
  /\ IF lockOwner[k] = p
       THEN /\ lockOwner' = [lockOwner EXCEPT ![k] = 0]
            /\ lockExp' = [lockExp EXCEPT ![k] = 0]
            /\ ngrants' = [ngrants EXCEPT ![p] =
                             IF frame[p].success THEN ngrants[p] + 1 ELSE ngrants[p]]
            /\ AcquireContinue(p, frame[p].success, frame[p].wait)
       ELSE /\ pc' = [pc EXCEPT ![p] = "idle"]
            /\ ret' = [ret EXCEPT ![p] = Raised("LockError")]
            /\ left' = [left EXCEPT ![p] = 0]
            /\ UNCHANGED <<lockOwner, lockExp, wake, ngrants>>
  /\ UNCHANGED <<cfgvars, touched, client, now, log, logExp, blockExp, call, grants, npings,
                 nwrites, cleared, ncalls, stolen, blockDur>>

\* time.sleep(wait) returns
Wake(p) ==
  /\ pc[p] = "sleep"
  /\ now >= wake[p]
  /\ pc' = [pc EXCEPT ![p] = "ping"]
  /\ wake' = [wake EXCEPT ![p] = 0]
  /\ UNCHANGED <<cfgvars, touched, client, now, storevars, call, left, frame, ret, histvars>>

\* block(key, seconds): dh is the seconds argument in half seconds, so that
\* an argument that is no int is rounded up by math.ceil
BlockSeconds(dh) ==
  LET given == IF dh = 0 THEN 2 * list_ttl ELSE dh
  IN  IF given % 2 = 0 THEN given \div 2 ELSE (given + 1) \div 2

\* block returns 0 before it reaches the store when neither the argument nor
\* list_ttl gives a time; otherwise SET and EXPIRE run in one transaction, and
\* an EXPIRE whose time is 0 or negative deletes the key
CallBlock(p, k, dh) ==
  LET seconds == BlockSeconds(dh) IN
  /\ pc[p] = "idle"
  /\ call' = [call EXCEPT ![p] =
                [op |-> "block", key |-> k, size |-> 0, blocking |-> FALSE]]
  /\ ret' = [ret EXCEPT ![p] = Returned(TRUE, seconds)]
  /\ IF dh = 0 /\ list_ttl = 0
       THEN UNCHANGED <<blockExp, blockDur>>
       ELSE IF seconds <= 0
         THEN /\ blockExp' = [blockExp EXCEPT ![k] = 0]
              /\ blockDur' = [blockDur EXCEPT ![k] = 0]
         ELSE /\ blockExp' = [blockExp EXCEPT ![k] = now + seconds * TicksPerSec]
              /\ blockDur' = [blockDur EXCEPT ![k] =
                                IF dh = 0 THEN list_ttl * TicksPerSec ELSE dh * HalfSecTicks]
  /\ UNCHANGED <<cfgvars, touched, client, now, log, logExp, lockOwner, lockExp, pc, left, frame,
                 wake, grants, npings, ngrants, nwrites, cleared, stolen>>

\* is_manual_block(key), up to the test of block_ttl: int(None) raises
CallIsManualBlock(p, k) ==
  LET block_ttl == ClientTtl(TtlReply(k)) IN
  /\ pc[p] = "idle"
  /\ call' = [call EXCEPT ![p] =
                [op |-> "is_manual_block", key |-> k, size |-> 0, blocking |-> FALSE]]
  /\ IF block_ttl = None
       THEN /\ ret' = [ret EXCEPT ![p] = Raised("TypeError")]
            /\ UNCHANGED <<pc, frame>>
       ELSE IF block_ttl >= 0
         THEN /\ pc' = [pc EXCEPT ![p] = "delete"]
              /\ frame' = [frame EXCEPT ![p] = [EmptyFrame EXCEPT !.block_ttl = block_ttl]]
              /\ ret' = [ret EXCEPT ![p] = NoRet]
         ELSE /\ ret' = [ret EXCEPT ![p] = Returned(TRUE, block_ttl)]
              /\ UNCHANGED <<pc, frame>>
  /\ UNCHANGED <<cfgvars, touched, client, now, storevars, left, wake, grants, npings, ngrants, nwrites,
                 cleared, stolen, blockDur>>

\* Delete that leaves the log in place
DeleteKeepsLog(p) ==
  LET k == call[p].key IN
  /\ pc[p] = "delete"
  /\ UNCHANGED <<log, logExp>>
  /\ ret' = [ret EXCEPT ![p] = Returned(TRUE, frame[p].block_ttl)]
  /\ frame' = [frame EXCEPT ![p] = EmptyFrame]
  /\ pc' = [pc EXCEPT ![p] = "idle"]
  /\ cleared' = [cleared EXCEPT ![k] = Len(grants[k])]
  /\ UNCHANGED <<cfgvars, touched, client, now, blockExp, lockOwner, lockExp, call, left, wake,
                 grants, npings, ngrants, nwrites, ncalls, stolen, blockDur>>

\* is_manual_block: self.redis.delete(log_key), return block_ttl
Delete(p) ==
  LET k == call[p].key IN
  /\ pc[p] = "delete"
  /\ log' = [log EXCEPT ![k] = <<>>]
  /\ logExp' = [logExp EXCEPT ![k] = 0]
  /\ ret' = [ret EXCEPT ![p] = Returned(TRUE, frame[p].block_ttl)]
  /\ frame' = [frame EXCEPT ![p] = EmptyFrame]
  /\ pc' = [pc EXCEPT ![p] = "idle"]
  /\ cleared' = [cleared EXCEPT ![k] = Len(grants[k])]
  /\ UNCHANGED <<cfgvars, touched, client, now, blockExp, lockOwner, lockExp, call, left, wake,
                 grants, npings, ngrants, nwrites, ncalls, stolen, blockDur>>

\* d ticks of time pass: the keys whose time to live has run out are gone
Advance(d) ==
  /\ now' = now + d
  /\ log' = [k \in Keys |-> IF Expired(now + d, logExp[k]) THEN <<>> ELSE log[k]]
  /\ logExp' = [k \in Keys |-> IF Expired(now + d, logExp[k]) THEN 0 ELSE logExp[k]]
  /\ blockExp' = [k \in Keys |-> IF Expired(now + d, blockExp[k]) THEN 0 ELSE blockExp[k]]
  /\ lockOwner' = [k \in Keys |-> IF Expired(now + d, lockExp[k]) THEN 0 ELSE lockOwner[k]]
  /\ lockExp' = [k \in Keys |-> IF Expired(now + d, lockExp[k]) THEN 0 ELSE lockExp[k]]
  /\ stolen' = (stolen \/ \E k \in Keys : lockOwner[k] # 0 /\ Expired(now + d, lockExp[k]))
  /\ blockDur' = [k \in Keys |-> IF Expired(now + d, blockExp[k]) THEN 0 ELSE blockDur[k]]
  /\ UNCHANGED <<cfgvars, touched, client, procvars, grants, npings, ngrants, nwrites, cleared, ncalls>>

\* d ticks of time, up to maxTime
Tick(d, maxTime) ==
  /\ now < maxTime
  /\ Advance(d)

\* a lock holder makes no step until its lease has run out
Stall ==
  /\ ~stolen
  /\ \E k \in Keys : lockOwner[k] # 0 /\ Advance(lockExp[k] - now)

\* ------------------------------------------------------------ store names

\* strings are sequences of characters
Chars == {"x", ":"}
Strings == UNION {[1 .. n -> Chars] : n \in 0 .. MaxStrLen}

\* sep.join(parts)
RECURSIVE Join(_, _)
Join(sep, parts) ==
  IF parts = <<>> THEN <<>>
  ELSE IF Len(parts) = 1 THEN parts[1]
  ELSE parts[1] \o sep \o Join(sep, Tail(parts))

\* ':'.join(('rate', self.namespace, key)) and its like
LogKey(ns, key) == Join(<<":">>, <<<<"r", "a", "t", "e">>, ns, key>>)
BlockKey(ns, key) == Join(<<":">>, <<<<"b", "l", "o", "c", "k">>, ns, key>>)
LockKey(ns, key) == Join(<<":">>, <<<<"l", "o", "c", "k">>, ns, key>>)

\* the store names an operation of the limiter with namespace ns reads or
\* writes for key
NamesOf(op, ns, key) ==
  IF op = "acquire" THEN {LogKey(ns, key), BlockKey(ns, key), LockKey(ns, key)}
  ELSE IF op = "block" THEN {BlockKey(ns, key)}
  ELSE {BlockKey(ns, key), LogKey(ns, key)}

Users == {<<t.ns, t.key>> : t \in touched}

\* the limiter with namespace ns runs op on key
Touch(op, ns, key) ==
  /\ Cardinality(Users \cup {<<ns, key>>}) <= MaxUsers
  /\ touched' = touched \cup {[ns |-> ns, key |-> key, name |-> n] : n \in NamesOf(op, ns, key)}
  /\ UNCHANGED <<cfgvars, client, now, storevars, procvars, histvars>>

\* ---------------------------------------------------------- specifications

InitRest ==
  /\ now = 0
  /\ log = [k \in Keys |-> <<>>]
  /\ logExp = [k \in Keys |-> 0]
  /\ blockExp = [k \in Keys |-> 0]
  /\ lockOwner = [k \in Keys |-> 0]
  /\ lockExp = [k \in Keys |-> 0]
  /\ pc = [p \in Procs |-> "idle"]
  /\ call = [p \in Procs |-> NoCall]
  /\ left = [p \in Procs |-> 0]
  /\ frame = [p \in Procs |-> EmptyFrame]
  /\ wake = [p \in Procs |-> 0]
  /\ ret = [p \in Procs |-> NoRet]
  /\ grants = [k \in Keys |-> <<>>]
  /\ npings = [p \in Procs |-> 0]
  /\ ngrants = [p \in Procs |-> 0]
  /\ nwrites = [p \in Procs |-> 0]
  /\ cleared = [k \in Keys |-> 0]
  /\ ncalls = [p \in Procs |-> 0]
  /\ stolen = FALSE
  /\ blockDur = [k \in Keys |-> 0]
  /\ touched = {}

\* configuration: a fresh limiter and add_condition calls
InitCond ==
  /\ conditions = <<>>
  /\ list_ttl = 0
  /\ raised = "none"
  /\ client = "StrictRedis"
  /\ InitRest

NextCond ==
  /\ \E args \in ArgLists : add_condition(args)
  /\ UNCHANGED <<touched, client, now, storevars, procvars, histvars>>

SpecCond == InitCond /\ [][NextCond]_vars

\* the condition lists the limiter is used with: what add_condition calls
\* that returned leave behind
CondLists ==
  {<<>>,
   <<<<0, 1>>>>, <<<<0, 1>>, <<0, 2>>>>, <<<<0, 2>>, <<1, 1>>>>,
   <<<<1, 1>>>>, <<<<2, 2>>>>, <<<<1, 1>>, <<2, 2>>>>, <<<<1, 2>>, <<2, 1>>>>,
   <<<<2, 1>>, <<2, 2>>>>}

MaxWindow(conds) ==
  LET st == LoopArgs([conds |-> <<>>, ttl |-> 0, err |-> "none"],
              [i \in 1 .. Len(conds) |-> [form |-> "tuple", requests |-> conds[i][1],
                 seconds |-> conds[i][2], minutes |-> 0, hours |-> 0, days |-> 0]])
  IN st.ttl

\* a (requests, seconds) pair as an argument of add_condition
TupleArg(requests, seconds) ==
  [form |-> "tuple", requests |-> requests, seconds |-> seconds,
   minutes |-> 0, hours |-> 0, days |-> 0]

\* the limiter after an add_condition call that stored a condition and then
\* raised on the next argument: the new condition is not sorted in
RaisedResults ==
  {AddConditionResult(<<<<2, 3>>>>, 3, <<TupleArg(0, 2), TupleArg(-1, 1)>>),
   AddConditionResult(<<<<2, 3>>>>, 3, <<TupleArg(1, 1), TupleArg(-1, 1)>>)}

\* the limiters acquire, block and is_manual_block are called on: configured
\* by add_condition calls that returned, or by calls the last of which raised
InitUse ==
  /\ \/ /\ conditions \in CondLists
        /\ list_ttl = MaxWindow(conditions)
        /\ raised = "none"
     \/ \E r \in RaisedResults :
          /\ conditions = r.conds
          /\ list_ttl = r.ttl
          /\ raised = r.err
  /\ client \in Clients
  /\ InitRest

\* the steps of an acquire call
PingStep(p) ==
  \/ Ping(p)
  \/ Lock(p)
  \/ Read(p)
  \/ Eval(p)
  \/ Write(p)
  \/ Unlock(p)
  \/ Wake(p)

\* no caller is inside a _make_ping or an is_manual_block
Quiet == \A p \in Procs : pc[p] \in {"idle", "sleep"}

\* one caller on its own, whose store round trips take no time
Next ==
  \/ /\ \/ \E k \in Keys, size \in 0 .. MaxBlockSize :
              Len(grants[k]) < MaxGrants /\ CallAcquire(1, k, size, FALSE)
        \/ \E k \in Keys : Len(grants[k]) < MaxGrants /\ CallAcquire(1, k, 1, TRUE)
        \/ \E k \in Keys, dh \in BlockArgs : CallBlock(1, k, dh)
        \/ \E k \in Keys : CallIsManualBlock(1, k)
     /\ UNCHANGED ncalls
  \/ PingStep(1)
  \/ Delete(1)
  \/ Quiet /\ Tick(1, MaxTime)

Spec == InitUse /\ [][Next]_vars

\* callers racing for one key; a caller may stall at any step for any time
CondListsConc == {<<<<1, 1>>>>, <<<<2, 1>>>>, <<<<1, 1>>, <<2, 2>>>>}

InitConc ==
  /\ \/ /\ conditions \in CondListsConc
        /\ list_ttl = MaxWindow(conditions)
        /\ raised = "none"
     \/ \E r \in RaisedResults :
          /\ conditions = r.conds
          /\ list_ttl = r.ttl
          /\ raised = r.err
  /\ client = "StrictRedis"
  /\ InitRest

NextConc ==
  \/ \E p \in Procs :
        \/ /\ ncalls[p] < MaxCallsConc
           /\ ncalls' = [ncalls EXCEPT ![p] = ncalls[p] + 1]
           /\ \/ \E size \in 1 .. MaxBlockSize : CallAcquire(p, "a", size, FALSE)
              \/ CallAcquire(p, "a", 1, TRUE)
        \/ PingStep(p)
  \/ Tick(HalfSecTicks, MaxTimeConc)
  \/ Stall
  \/ stolen /\ Tick(HalfSecTicks, LockTimeout * TicksPerSec + MaxTimeConc)

SpecConc == InitConc /\ [][NextConc]_vars

\* one caller in acquire while another calls block and is_manual_block on
\* the same key
NextRace ==
  \/ /\ ncalls[1] < MaxCallsRace
     /\ ncalls' = [ncalls EXCEPT ![1] = ncalls[1] + 1]
     /\ \/ \E size \in 1 .. MaxBlockSize : CallAcquire(1, "a", size, FALSE)
        \/ CallAcquire(1, "a", 1, TRUE)
  \/ PingStep(1)
  \/ /\ ncalls[2] < MaxCallsRace
     /\ ncalls' = [ncalls EXCEPT ![2] = ncalls[2] + 1]
     /\ \/ \E dh \in BlockArgs : CallBlock(2, "a", dh)
        \/ CallIsManualBlock(2, "a")
  \/ Delete(2)
  \/ Tick(HalfSecTicks, MaxTimeConc)

SpecRace == InitConc /\ [][NextRace]_vars

\* one caller that only calls acquire
NextAcq ==
  \/ /\ \/ \E k \in Keys, size \in 1 .. MaxBlockSize :
              Len(grants[k]) < MaxGrantsAcq /\ CallAcquire(1, k, size, FALSE)
        \/ \E k \in Keys : Len(grants[k]) < MaxGrantsAcq /\ CallAcquire(1, k, 1, TRUE)
     /\ UNCHANGED ncalls
  \/ PingStep(1)
  \/ Quiet /\ Tick(1, MaxTimeAcq)

SpecAcq == InitUse /\ [][NextAcq]_vars

\* a blocking acquire by caller 1, while caller 2 makes a few calls of its
\* own early on; time goes on between the callers' store round trips.  The
\* count of pings is history: a blocking acquire starts it again when it has
\* reached its bound.
Restart(p) ==
  /\ pc[p] = "ping"
  /\ call[p].blocking
  /\ npings[p] = MaxPings
  /\ npings' = [npings EXCEPT ![p] = 0]
  /\ UNCHANGED <<cfgvars, touched, client, now, storevars, procvars, grants, ngrants, nwrites,
                 cleared, ncalls, stolen, blockDur>>

\* time goes on until every wait that a call started before MaxStartLive can
\* lead to has run out
TickLive == Quiet /\ Tick(1, MaxStartLive + MaxSecondsLive * TicksPerSec + HalfSecTicks)

NextLive ==
  \/ /\ now < MaxStartLive
     /\ ncalls[1] < 1
     /\ ncalls' = [ncalls EXCEPT ![1] = ncalls[1] + 1]
     /\ CallAcquire(1, "a", 1, TRUE)
  \/ /\ now < MaxStartLive
     /\ ncalls[2] < MaxCallsLive
     /\ ncalls' = [ncalls EXCEPT ![2] = ncalls[2] + 1]
     /\ \/ CallAcquire(2, "a", 1, FALSE)
        \/ \E dh \in BlockArgs : CallBlock(2, "a", dh)
  \/ \E p \in Procs : PingStep(p)
  \/ Restart(1)
  \/ TickLive

\* every caller goes on with its call, and time goes on
SpecLive ==
  /\ InitUse
  /\ [][NextLive]_vars
  /\ \A p \in Procs : WF_vars(PingStep(p))
  /\ WF_vars(Restart(1))
  /\ SF_vars(TickLive)

\* limiters of any namespaces sharing one store
NextNames ==
  \/ \E ns \in Strings, key \in Strings : Touch("acquire", ns, key)
  \/ \E ns \in Strings, key \in Strings : Touch("block", ns, key)
  \/ \E ns \in Strings, key \in Strings : Touch("is_manual_block", ns, key)

SpecNames == InitCond /\ [][NextNames]_vars

\* ------------------------------------------------------------------ claims

MaxOf(S) == IF S = {} THEN 0 ELSE CHOOSE m \in S : \A x \in S : x <= m

\* C9: after any sequence of add_condition calls the condition list is
\* sorted ascending by allowedRequests.
C9_ConditionsSorted ==
  \A i \in 1 .. Len(conditions) - 1 : conditions[i][1] <= conditions[i + 1][1]

\* C10: add_condition raises ValueError exactly when one of its arguments has
\* requests < 0 or seconds < 0; a call that returns stores its arguments with
\* seconds > 0 and no other; and list_ttl is always the largest seconds of
\* the stored conditions, 0 when none is stored.
C10_ListTtl == list_ttl = MaxOf({conditions[i][2] : i \in 1 .. Len(conditions)})

C10_Validation ==
  /\ []C10_ListTtl
  /\ [][\A args \in ArgLists : add_condition(args) =>
          LET bad == \E i \in 1 .. Len(args) :
                        args[i].requests < 0 \/ CondSeconds(args[i]) < 0
              kept == {i \in 1 .. Len(args) : CondSeconds(args[i]) > 0}
          IN  /\ (raised' = "ValueError") <=> bad
              /\ ~bad => /\ Len(conditions') = Len(conditions) + Cardinality(kept)
                         /\ \A i \in kept : \E j \in 1 .. Len(conditions') :
                               conditions'[j] = <<args[i].requests, CondSeconds(args[i])>>
              /\ \A j \in 1 .. Len(conditions') : conditions'[j][2] > 0]_vars

\* a call has raised after it stored a condition, and list_ttl is not 0
C10_Witness ==
  /\ raised = "ValueError"
  /\ Len(conditions) = 2
  /\ list_ttl = 60

\* the caller's last call was an acquire and has returned a value
AcquireReturned(p) ==
  call[p].op = "acquire" /\ pc[p] = "idle" /\ ret[p].kind = "return"

\* the condition set holds a block-all condition
HasBlockAll == \E i \in 1 .. Len(conditions) : conditions[i][1] = 0

\* the condition set is not empty and its first condition is no block-all
Limiting == conditions # <<>> /\ conditions[1][1] > 0

\* a manual block is in force on key k
BlockActive(k) == blockExp[k] > now

\* the grants on key k stay within every condition's limit: no window of
\* seconds (open at its start, closed at its end) holds more than requests
\* grant timestamps
WindowBound(k) ==
  LET g == grants[k] IN
  \A i \in 1 .. Len(conditions) :
    conditions[i][1] > 0 =>
      \A a \in 1 .. Len(g) :
        Cardinality({b \in 1 .. Len(g) :
                       /\ g[a] - conditions[i][2] * TicksPerSec < g[b]
                       /\ g[b] <= g[a]}) <= conditions[i][1]

\* C1: whatever the interleaving of the callers' steps, the grants on a key
\* stay within the limit of every configured condition (n, T) with n > 0.
C1_WindowBound == \A k \in Keys : WindowBound(k)

C3_BlockAlwaysDenies ==
  \A p \in Procs :
    (AcquireReturned(p) /\ BlockActive(call[p].key)) =>
      /\ ~ret[p].success
      /\ 0 < ret[p].value
      /\ ret[p].value <= blockDur[call[p].key]

\* C4: when the condition set holds a block-all condition (0, W), every
\* acquire returns (False, W), whatever the log, the manual block and the
\* other conditions are.
C4_EveryBlockAll ==
  \A i \in 1 .. Len(conditions) :
    conditions[i][1] = 0 =>
      \A p \in Procs :
        AcquireReturned(p) => ret[p] = Returned(FALSE, conditions[i][2] * TicksPerSec)

\* C5: with no condition, acquire (block_size >= 1, or blocking) returns
\* (True, 0) after any earlier calls, manual block or not, and neither the
\* lock nor the log is touched.
C5_NoConditions ==
  conditions = <<>> =>
    /\ \A p \in Procs :
         /\ call[p].op = "acquire" => pc[p] \in {"idle", "ping"}
         /\ AcquireReturned(p) =>
              /\ ret[p] = Returned(TRUE, 0)
              /\ npings[p] = IF call[p].blocking THEN 1 ELSE call[p].size
              /\ nwrites[p] = 0
    /\ \A k \in Keys :
         /\ lockOwner[k] = 0 /\ lockExp[k] = 0
         /\ log[k] = <<>> /\ logExp[k] = 0
         /\ grants[k] = <<>>

\* an acquire of two pings has returned (True, 0) under a manual block
C5_Witness ==
  /\ conditions = <<>>
  /\ BlockActive("a")
  /\ AcquireReturned(1)
  /\ call[1].size = 2 /\ npings[1] = 2
  /\ ret[1] = Returned(TRUE, 0)

\* the time to live of the manual block on key k runs out in this step
BlockExpires(k) == blockExp[k] # 0 /\ Expired(now', blockExp[k])

\* the time at which the manual block in force on key k was set: block
\* rounds the time it is given up to whole seconds
BlockSetAt(k) ==
  blockExp[k] - ((blockDur[k] + TicksPerSec - 1) \div TicksPerSec) * TicksPerSec

\* C6 (as claimed): when a manual block runs out, the log holds no entry of a
\* grant made before the block was set.
C6_CleanAfterBlock ==
  [][\A k \in Keys :
       BlockExpires(k) =>
         \A i \in 1 .. Len(log'[k]) : log'[k][i] >= BlockSetAt(k)]_vars

\* C6 (amended): an is_manual_block call that finds the block in force
\* deletes the log, so the entries written before that call are gone for
\* good: the log never holds more entries than grants were written since.
\* Neither a block call nor the end of a block removes anything from the log.
C6_CleanAfterIsManualBlock ==
  /\ [](\A k \in Keys : Len(log[k]) <= Len(grants[k]) - cleared[k])
  /\ [][\A p \in Procs : Delete(p) => log'[call[p].key] = <<>>]_vars
  /\ [][\A k \in Keys :
          ((\E p \in Procs, dh \in BlockArgs : CallBlock(p, k, dh))
             \/ (BlockExpires(k) /\ ~Expired(now', logExp[k])))
          => log'[k] = log[k]]_vars

\* a grant read before the block was set is written after is_manual_block
\* has deleted the log, while the block is in force
C6_Witness ==
  /\ BlockActive("a")
  /\ cleared["a"] = 1
  /\ Len(grants["a"]) = 2
  /\ Len(log["a"]) = 1

\* C7 (as claimed): a non-blocking acquire with block_size k >= 1 makes at
\* most k pings, returns the first denial at once, and returns (True, 0) only
\* after k grants, each written to the log.
C7_AllGrantsLogged ==
  \A p \in Procs :
    (call[p].op = "acquire" /\ ~call[p].blocking /\ call[p].size >= 1) =>
      /\ npings[p] <= call[p].size
      /\ AcquireReturned(p) =>
           IF ret[p].success
             THEN /\ ret[p].value = 0
                  /\ npings[p] = call[p].size
                  /\ ngrants[p] = call[p].size
                  /\ nwrites[p] = call[p].size
             ELSE ngrants[p] = npings[p] - 1

\* C7 (amended): as claimed, but the grants are written to the log only when
\* the condition set is not empty; with no condition none is.  A grant is
\* written before its ping returns: the writes are the pings that returned
\* True, and one more while a granted ping is about to return.
C7_NonBlocking ==
  \A p \in Procs :
    (call[p].op = "acquire" /\ ~call[p].blocking /\ call[p].size >= 1) =>
      /\ npings[p] <= call[p].size
      /\ ngrants[p] <= npings[p]
      /\ pc[p] # "sleep"
      /\ nwrites[p] =
           IF conditions = <<>> THEN 0
           ELSE IF pc[p] = "unlock" /\ frame[p].success THEN ngrants[p] + 1
           ELSE ngrants[p]
      /\ AcquireReturned(p) =>
           IF ret[p].success
             THEN /\ ret[p].value = 0
                  /\ npings[p] = call[p].size
                  /\ ngrants[p] = call[p].size
             ELSE /\ ngrants[p] = npings[p] - 1
                  /\ left[p] = 0

\* an acquire of two pings has returned the denial of its first ping
C7_Witness ==
  /\ AcquireReturned(1)
  /\ ~call[1].blocking /\ call[1].size = 2
  /\ npings[1] = 1
  /\ Limiting /\ ~BlockActive("a")
  /\ ~ret[1].success /\ ret[1].value > 0

\* the wait a caller's _make_ping is about to hand to acquire
PingWait(p) ==
  IF pc[p] = "unlock" THEN frame[p].wait ELSE conditions[1][2] * TicksPerSec

\* C8 (as claimed): a blocking acquire returns only (True, 0), after a ping
\* was granted, with exactly one grant written to the log for the call.
C8_OneGrantRecorded ==
  \A p \in Procs :
    (AcquireReturned(p) /\ call[p].blocking) =>
      /\ ret[p] = Returned(TRUE, 0)
      /\ ngrants[p] = 1
      /\ nwrites[p] = 1

\* C8 (amended): a blocking acquire returns only (True, 0), after exactly
\* one granted ping, which is its last; that grant is written to the log
\* when the condition set is not empty, and nothing is written when it is
\* empty; after every denial the call sleeps the wait that ping returned.
C8_Blocking ==
  /\ [](\A p \in Procs :
          (call[p].op = "acquire" /\ call[p].blocking) =>
            /\ ngrants[p] <= 1 /\ nwrites[p] <= 1
            /\ ngrants[p] = 1 => pc[p] = "idle"
            /\ nwrites[p] = 1 =>
                 \/ pc[p] = "unlock" /\ frame[p].success /\ ngrants[p] = 0
                 \/ pc[p] = "idle" /\ ngrants[p] = 1
            /\ AcquireReturned(p) =>
                 /\ ret[p] = Returned(TRUE, 0)
                 /\ ngrants[p] = 1
                 /\ nwrites[p] = IF conditions = <<>> THEN 0 ELSE 1)
  /\ [][\A p \in Procs :
          (pc[p] # "sleep" /\ pc'[p] = "sleep") =>
            /\ call[p].blocking
            /\ ngrants[p] = 0 /\ nwrites[p] = 0
            /\ wake'[p] = now + PingWait(p)]_vars
  /\ [][\A p \in Procs :
          (pc[p] = "sleep" /\ pc'[p] # "sleep") =>
            (now >= wake[p] /\ pc'[p] = "ping")]_vars

\* a blocking acquire has returned after a denial and a sleep
C8_Witness ==
  /\ AcquireReturned(1)
  /\ call[1].blocking
  /\ npings[1] = 2
  /\ ret[1] = Returned(TRUE, 0)
  /\ Len(grants["a"]) = 2

\* C11: block(key, duration) returns the seconds applied and sets the key's
\* block flag with exactly that time to live: the given duration when it is
\* not zero, list_ttl (maxWindow) when it is zero; when both are zero it
\* returns 0 and leaves the store as it was.
C11_BlockApplies ==
  [][\A k \in Keys, dh \in BlockArgs :
       CallBlock(1, k, dh) =>
         LET applied == IF dh # 0 THEN dh * HalfSecTicks ELSE list_ttl * TicksPerSec
         IN  /\ ret'[1] = Returned(TRUE, ret'[1].value)
             /\ ret'[1].value * TicksPerSec = applied
             /\ IF applied = 0
                  THEN UNCHANGED storevars
                  ELSE /\ blockExp'[k] = now + applied
                       /\ BlockActive(k)'
                       /\ UNCHANGED <<log, logExp, lockOwner, lockExp>>]_vars

\* C12: the store names of distinct (namespace, key) pairs never collide: no
\* name of the store (rate:, block: or lock:) is used for two pairs.
C12_NoCollision ==
  \A t, u \in touched : t.name = u.name => (t.ns = u.ns /\ t.key = u.key)

\* the caller is between the batched read of its _make_ping and the end of
\* its grant write on key k
InSequence(p, k) ==
  call[p].op = "acquire" /\ call[p].key = k /\ pc[p] \in {"eval", "write"}

\* C13 (as claimed): at most one caller at a time is between its batched read
\* and its grant write on a key, also when a lock holder stalls longer than
\* the 10 s lease.
C13_NeverInterleaved ==
  \A k \in Keys : Cardinality({p \in Procs : InSequence(p, k)}) <= 1

\* C13 (amended): as long as no caller has held the key's lock until its
\* 10 s lease ran out, at most one caller at a time is between its batched
\* read and its grant write on a key, and that caller holds the key's lock.
C13_InterleavedOnlyAfterLease ==
  ~stolen =>
    \A k \in Keys :
      /\ Cardinality({p \in Procs : InSequence(p, k)}) <= 1
      /\ \A p \in Procs : InSequence(p, k) => lockOwner[k] = p

\* one caller is about to write its grant while the other waits for the lock
C13_Witness ==
  /\ ~stolen
  /\ pc[1] = "write" /\ InSequence(1, "a")
  /\ pc[2] = "lock" /\ call[2].key = "a"
  /\ lockOwner["a"] = 1

\* C14: no public operation reads or writes a key's History Log while its
\* caller does not hold the key's lock, and no operation changes the log
\* between another caller's batched read and its grant write.
C14_LogUnderLock ==
  /\ [][\A p \in Procs :
          (Read(p) \/ Write(p) \/ Delete(p)) => lockOwner[call[p].key] = p]_vars
  /\ [][\A p \in Procs, k \in Keys :
          (InSequence(p, k) /\ pc'[p] = pc[p] /\ now' = now) => log'[k] = log[k]]_vars

\* C15: when _make_ping denies because of a manual block, the wait it
\* returns is the time to live the store reports for the block key, and 0.5 s
\* at least: it is never zero or negative.
C15_BlockWaitClamped ==
  \A p \in Procs :
    (pc[p] = "unlock" /\ frame[p].blocked) =>
      LET ttl == TtlReply(call[p].key) * TicksPerSec
      IN  /\ ~frame[p].success
          /\ frame[p].wait >= HalfSecTicks
          /\ frame[p].wait = IF ttl > HalfSecTicks THEN ttl ELSE HalfSecTicks

\* the condition list of an add_condition(args) call before its sort: the
\* stored conditions followed by the arguments in the order given
Encountered(args) ==
  LoopArgs([conds |-> conditions, ttl |-> list_ttl, err |-> "none"], args).conds

\* C16 (as claimed): conditions with equal allowedRequests keep their
\* encounter order when add_condition sorts the list.
C16_TiesKeepOrder ==
  [][\A args \in ArgLists :
       (add_condition(args) /\ raised' = "none") =>
         LET pre == Encountered(args) IN
         \A i, j \in 1 .. Len(pre) :
           (i < j /\ pre[i][1] = pre[j][1] /\ pre[i] # pre[j]) =>
             \E a, b \in 1 .. Len(conditions') :
               a < b /\ conditions'[a] = pre[i] /\ conditions'[b] = pre[j]]_vars

\* C16 (amended): after an add_condition call that returns, conditions with
\* equal allowedRequests are in ascending order of windowSeconds, whatever
\* the order they were given in.
C16_TiesBySeconds ==
  [][\A args \in ArgLists :
       (add_condition(args) /\ raised' = "none") =>
         /\ Len(conditions') = Len(Encountered(args))
         /\ \A i, j \in 1 .. Len(conditions') :
              (i < j /\ conditions'[i][1] = conditions'[j][1]) =>
                conditions'[i][2] <= conditions'[j][2]]_vars

\* three conditions of one allowedRequests are stored, two of them alike
C16_Witness ==
  /\ raised = "none"
  /\ conditions = <<<<1, 1>>, <<1, 2>>, <<1, 2>>>>

\* the largest allowedRequests over all conditions
MaxRequests == MaxOf({conditions[i][1] : i \in 1 .. Len(conditions)})

\* C17: in every reachable state a key's History Log holds only timestamps
\* of granted pings, most recent first, is no longer than the largest
\* allowedRequests over all conditions, and carries a time to live of
\* maxWindow after each grant; a denied ping adds no entry.
C17_LogShape ==
  /\ [](\A k \in Keys :
          LET l == log[k] IN
          /\ \A i \in 1 .. Len(l) : \E j \in 1 .. Len(grants[k]) : l[i] = grants[k][j]
          /\ \A i \in 1 .. Len(l) - 1 : l[i] >= l[i + 1]
          /\ Len(l) <= MaxRequests)
  /\ [][\A p \in Procs :
          LET k == call[p].key IN
          /\ Write(p) => /\ Head(log'[k]) = frame[p].timestamp
                         /\ logExp'[k] = now + list_ttl * TicksPerSec
          /\ (PingStep(p) /\ ~Write(p)) => (log'[k] = log[k] /\ logExp'[k] = logExp[k])]_vars

\* the log of a reference limiter: every grant timestamp of the key, most
\* recent first, never trimmed and never expiring
RefLog(k) == [i \in 1 .. Len(grants[k]) |-> grants[k][Len(grants[k]) + 1 - i]]

\* the boundary timestamps the reference limiter reads
RefBoundary(k) == [i \in 1 .. Len(conditions) |-> lindex(RefLog(k), conditions[i][1] - 1)]

\* C18: with a fixed condition set and no block or is_manual_block call,
\* every _make_ping of a sequence of acquire calls returns the (granted,
\* waitSeconds) a reference limiter returns that keeps the full list of grant
\* timestamps: trimming and expiring the log never changes a decision.
C18_SameAsReference ==
  \A p \in Procs :
    LET k == call[p].key
        f == frame[p]
        v == FirstViolated(RefBoundary(k), f.timestamp, 1)
    IN  /\ pc[p] = "write" => v = 0
        /\ (pc[p] = "unlock" /\ ~f.success) =>
             /\ v # 0
             /\ f.wait = RefBoundary(k)[v] + conditions[v][2] * TicksPerSec - f.timestamp

\* C19: an add_condition call that raises ValueError leaves the condition
\* list and list_ttl as they were before the call.
C19_FailureLeavesLimiter ==
  [][\A args \in ArgLists :
       (add_condition(args) /\ raised' = "ValueError") =>
         (conditions' = conditions /\ list_ttl' = list_ttl)]_vars

\* the caller is inside a blocking acquire
InBlockingAcquire(p) ==
  call[p].op = "acquire" /\ call[p].blocking /\ pc[p] # "idle"

\* C20: under fair scheduling and advancing time, with finitely many manual
\* blocks and finitely many grants of other callers, a blocking acquire
\* returns in the end when the condition set has no block-all condition, and
\* never returns when it has one.
C20_BlockingReturns ==
  /\ \A p \in Procs :
       (InBlockingAcquire(p) /\ ~HasBlockAll) ~> (AcquireReturned(p) /\ ret[p].success)
  /\ [](HasBlockAll => \A p \in Procs : ~(AcquireReturned(p) /\ call[p].blocking))

====
